---- MODULE Spec2Model ----
(***************************************************************************)
(* Model of the local-storage-explorer DevTools panel:                     *)
(*   src/js/StorageDriver.js  - StorageDriver (remote evaluation)          *)
(*   src/js/options.js        - WebStorageExplorer (panel controller)      *)
(*   src/unnamed/part_000     - devtools.js (panel lifecycle)              *)
(*   src/js/const.js          - DEFAULT_STORAGE, ICON_TYPE                 *)
(*                                                                         *)
(* JavaScript strings are sequences of one-character strings.  JavaScript  *)
(* values are tagged records [t |-> tag, v |-> payload].  Indices that the *)
(* program keeps (lastShownKeyIndex) are 0-based as in the source, with -1 *)
(* for "none".                                                             *)
(***************************************************************************)
EXTENDS Integers, Sequences, FiniteSets, TLC

VARIABLES
    remote,        \* the inspected page: [localStorage, sessionStorage], each a sequence of [key, raw]
    pending,       \* retrieveStorage calls suspended at their await, in issue order
    mutations,     \* removeKey / clearStorage calls suspended at their await
    app,           \* the WebStorageExplorer instance and the DOM elements it writes
    appShownFirst, \* devtools.js flag
    searchListeners, \* number of listeners registered on panel.onSearch
    probe,         \* input and result of the entry classification (pure-function specification)
    idem,          \* history: progress of a pair of successive reloads
    budget,        \* history: storage changes and failed evaluations so far
    last           \* history: the call that resumed in the last step; a failure so far

vars == <<remote, pending, mutations, app, appShownFirst, searchListeners, probe,
          idem, budget, last>>

----------------------------------------------------------------------------
(* Bounds of the model *)

\* changes of the inspected page's storage (made by the page itself or asked
\* for by the panel) and failed evaluations, in one behaviour
MaxEnvEvents == 1
\* calls suspended at an await at the same time
MaxInFlight == 2
\* keys per storage area in the initial state
MaxInitKeys == 2
\* keys per storage area in the initial state, when the stored setting varies
MaxSettingsKeys == 1
\* length of the raw strings given to the entry classification
MaxRawLen == 4
\* length of the text shown in the value view, when it is searched
MaxTextLen == 3
\* length of the keyword of a search event
MaxKeywordLen == 2

----------------------------------------------------------------------------
(* Program constants *)

DEFAULT_STORAGE == "localStorage"

StorageNames == {"localStorage", "sessionStorage"}

ICON_TYPE ==
    [t \in {"object", "string", "array", "number", "null", "boolean", "other"} |->
        CASE t = "object" -> "code"
          [] t = "string" -> "font"
          [] t = "array" -> "list-ol"
          [] t = "number" -> "sort-numeric-asc"
          [] t = "null" -> "ban"
          [] t = "boolean" -> "check"
          [] t = "other" -> "question"]

----------------------------------------------------------------------------
(* JavaScript values *)

Str(s) == [t |-> "string", v |-> s]
Num(n) == [t |-> "number", v |-> n]
Arr(items) == [t |-> "array", v |-> items]
Obj(members) == [t |-> "object", v |-> members]
Bool(b) == [t |-> "boolean", v |-> b]
Null == [t |-> "null", v |-> 0]
Undefined == [t |-> "undefined", v |-> 0]
Function == [t |-> "function", v |-> 0]
Symbol == [t |-> "symbol", v |-> 0]

\* The characters raw strings are drawn from.
Chars == {"{", "}", "[", "]", "\"", ":", ",", "1", "a"}

RECURSIVE StringsUpTo(_)
StringsUpTo(n) ==
    IF n = 0 THEN {<<>>}
    ELSE LET shorter == StringsUpTo(n - 1)
         IN shorter \cup {Append(s, c) : s \in {x \in shorter : Len(x) = n - 1}, c \in Chars}

\* The JSON literal names, as raw strings.
LiteralTrue == <<"t", "r", "u", "e">>
LiteralFalse == <<"f", "a", "l", "s", "e">>
LiteralNull == <<"n", "u", "l", "l">>

RawStrings == StringsUpTo(MaxRawLen) \cup {LiteralTrue, LiteralFalse, LiteralNull}

CharAt(s, i) == IF i >= 1 /\ i <= Len(s) THEN s[i] ELSE "EOF"

startsWith(s, c) == CharAt(s, 1) = c

----------------------------------------------------------------------------
(* JSON.parse, restricted to texts over Chars and the literal names:       *)
(* strings without escapes, numbers made of the digit 1, true, false,      *)
(* null, arrays and objects.  A parse result is [ok, v, n]: the value and  *)
(* the index after it.                                                     *)

ParseFail == [ok |-> FALSE, v |-> Undefined, n |-> 0]
ParseOk(val, next) == [ok |-> TRUE, v |-> val, n |-> next]

RECURSIVE ClosingQuote(_, _)
ClosingQuote(s, i) ==
    IF i > Len(s) THEN 0
    ELSE IF s[i] = "\"" THEN i
    ELSE ClosingQuote(s, i + 1)

\* s[i] is an opening quote.
ParseStringAt(s, i) ==
    LET j == ClosingQuote(s, i + 1)
    IN IF j = 0 THEN ParseFail ELSE ParseOk(Str(SubSeq(s, i + 1, j - 1)), j + 1)

RECURSIVE DigitsEnd(_, _)
DigitsEnd(s, i) == IF CharAt(s, i) = "1" THEN DigitsEnd(s, i + 1) ELSE i

RECURSIVE Repunit(_)
Repunit(n) == IF n = 0 THEN 0 ELSE 10 * Repunit(n - 1) + 1

ParseNumberAt(s, i) ==
    LET j == DigitsEnd(s, i) IN ParseOk(Num(Repunit(j - i)), j)

IsAt(s, i, word) ==
    i + Len(word) - 1 <= Len(s) /\ SubSeq(s, i, i + Len(word) - 1) = word

ParseLiteralAt(s, i) ==
    IF IsAt(s, i, LiteralTrue) THEN ParseOk(Bool(TRUE), i + Len(LiteralTrue))
    ELSE IF IsAt(s, i, LiteralFalse) THEN ParseOk(Bool(FALSE), i + Len(LiteralFalse))
    ELSE IF IsAt(s, i, LiteralNull) THEN ParseOk(Null, i + Len(LiteralNull))
    ELSE ParseFail

\* obj with member k set to val (a repeated member name keeps the last value).
SetMember(obj, k, val) ==
    [x \in (DOMAIN obj) \cup {k} |-> IF x = k THEN val ELSE obj[x]]

RECURSIVE ParseValueAt(_, _)
RECURSIVE ParseElements(_, _, _)
RECURSIVE ParseMembers(_, _, _)

ParseValueAt(s, i) ==
    LET c == CharAt(s, i)
    IN CASE c = "\"" -> ParseStringAt(s, i)
         [] c = "1" -> ParseNumberAt(s, i)
         [] c \in {"t", "f", "n"} -> ParseLiteralAt(s, i)
         [] c = "[" -> IF CharAt(s, i + 1) = "]"
                       THEN ParseOk(Arr(<<>>), i + 2)
                       ELSE ParseElements(s, i + 1, <<>>)
         [] c = "{" -> IF CharAt(s, i + 1) = "}"
                       THEN ParseOk(Obj(<<>>), i + 2)
                       ELSE ParseMembers(s, i + 1, <<>>)
         [] OTHER -> ParseFail

ParseElements(s, i, acc) ==
    LET r == ParseValueAt(s, i)
    IN IF ~r.ok THEN ParseFail
       ELSE CASE CharAt(s, r.n) = "," -> ParseElements(s, r.n + 1, Append(acc, r.v))
              [] CharAt(s, r.n) = "]" -> ParseOk(Arr(Append(acc, r.v)), r.n + 1)
              [] OTHER -> ParseFail

ParseMembers(s, i, acc) ==
    IF CharAt(s, i) # "\"" THEN ParseFail
    ELSE LET k == ParseStringAt(s, i)
         IN IF ~k.ok \/ CharAt(s, k.n) # ":" THEN ParseFail
            ELSE LET r == ParseValueAt(s, k.n + 1)
                 IN IF ~r.ok THEN ParseFail
                    ELSE CASE CharAt(s, r.n) = "," ->
                                  ParseMembers(s, r.n + 1, SetMember(acc, k.v.v, r.v))
                           [] CharAt(s, r.n) = "}" ->
                                  ParseOk(Obj(SetMember(acc, k.v.v, r.v)), r.n + 1)
                           [] OTHER -> ParseFail

\* JSON.parse(s): [ok, v]; ok = FALSE stands for the SyntaxError it throws.
JSONParse(s) ==
    LET r == ParseValueAt(s, 1)
    IN IF r.ok /\ r.n = Len(s) + 1 THEN r ELSE ParseFail

----------------------------------------------------------------------------
(* WebStorageExplorer.tryParseJSON, guessType and the entry derived from a *)
(* raw string in _parseAndRenderStorage.                                   *)

\* A tryParseJSON that gives up on quoted strings; the classification
\* property must tell it from the real one.
tryParseJSONSkippingQuoted(strJSON) ==
    IF ~startsWith(strJSON, "{") /\ ~startsWith(strJSON, "[")
    THEN Null
    ELSE IF JSONParse(strJSON).ok THEN JSONParse(strJSON).v ELSE Null

\* A tryParseJSON that parses every string, whatever it begins with; the
\* property of the plain strings must tell it from the real one.
tryParseJSONAnything(strJSON) ==
    IF JSONParse(strJSON).ok THEN JSONParse(strJSON).v ELSE Null

tryParseJSON(strJSON) ==
    IF ~startsWith(strJSON, "{") /\ ~startsWith(strJSON, "[") /\ ~startsWith(strJSON, "\"")
    THEN Null
    ELSE IF JSONParse(strJSON).ok THEN JSONParse(strJSON).v ELSE Null

\* An x ?? y that gives x even when x is null; the property of the three
\* type tags must tell it from the real one.
CoalesceKeepingNull(x, y) == x

\* x ?? y
Coalesce(x, y) == IF x.t \in {"null", "undefined"} THEN y ELSE x

\* typeof val
TypeOf(val) ==
    CASE val.t \in {"null", "array", "object"} -> "object"
      [] val.t \in {"boolean", "number", "string", "undefined", "function"} -> val.t
      [] OTHER -> "symbol"

\* A guessType that asks typeof first; the property of the priority order
\* must tell it from the real one.
guessTypeByTypeofFirst(val) ==
    IF TypeOf(val) = "object" THEN "object"
    ELSE IF val = Null THEN "null"
    ELSE IF val.t = "array" THEN "array"
    ELSE IF TypeOf(val) = "boolean" THEN "boolean"
    ELSE IF TypeOf(val) = "number" THEN "number"
    ELSE IF TypeOf(val) = "string" THEN "string"
    ELSE "other"

guessType(val) ==
    IF val = Null THEN "null"
    ELSE IF val.t = "array" THEN "array"
    ELSE IF TypeOf(val) = "object" THEN "object"
    ELSE IF TypeOf(val) = "boolean" THEN "boolean"
    ELSE IF TypeOf(val) = "number" THEN "number"
    ELSE IF TypeOf(val) = "string" THEN "string"
    ELSE "other"

\* The storage-map entry built for one raw value (options.js 281-288).
EntryOf(rawValue) ==
    LET parsedValue == Coalesce(tryParseJSON(rawValue), Str(rawValue))
    IN [value |-> parsedValue, len |-> Len(rawValue), type |-> guessType(parsedValue)]

----------------------------------------------------------------------------
(* The rendering surface *)

\* key.replace(/&/g, "&amp;").replace(/</g, "&lt;").replace(/>/g, "&gt;").replace(/"/g, "&quot;")
EscapeChar(c) ==
    CASE c = "&" -> <<"&", "a", "m", "p", ";">>
      [] c = "<" -> <<"&", "l", "t", ";">>
      [] c = ">" -> <<"&", "g", "t", ";">>
      [] c = "\"" -> <<"&", "q", "u", "o", "t", ";">>
      [] OTHER -> <<c>>

RECURSIVE EscapeHtml(_)
EscapeHtml(key) ==
    IF key = <<>> THEN <<>> ELSE EscapeChar(Head(key)) \o EscapeHtml(Tail(key))

HasPrefix(s, p) == Len(s) >= Len(p) /\ SubSeq(s, 1, Len(p)) = p

\* The HTML parser's decoding of the character references in an attribute
\* value (what link.dataset.key reads back from data-key="...").
RECURSIVE DecodeAttr(_)
DecodeAttr(s) ==
    IF s = <<>> THEN <<>>
    ELSE IF HasPrefix(s, EscapeChar("&")) THEN <<"&">> \o DecodeAttr(SubSeq(s, 6, Len(s)))
    ELSE IF HasPrefix(s, EscapeChar("<")) THEN <<"<">> \o DecodeAttr(SubSeq(s, 5, Len(s)))
    ELSE IF HasPrefix(s, EscapeChar(">")) THEN <<">">> \o DecodeAttr(SubSeq(s, 5, Len(s)))
    ELSE IF HasPrefix(s, EscapeChar("\"")) THEN <<"\"">> \o DecodeAttr(SubSeq(s, 7, Len(s)))
    ELSE <<Head(s)>> \o DecodeAttr(Tail(s))

\* link.dataset.key
DataKey(link) == DecodeAttr(link.dataKey)

\* querySelector(`.js-select-key[data-key="${key}"]`) throws a SyntaxError
\* when the interpolated key closes the quoted attribute value early.
SelectorThrows(key) == \E i \in 1..Len(key) : key[i] = "\""

\* Index of the first link the selector matches, 0 when it matches none.
QueryLink(keyListEl, key) ==
    LET hits == {i \in 1..Len(keyListEl) : DataKey(keyListEl[i]) = key}
    IN IF hits = {} THEN 0 ELSE CHOOSE i \in hits : \A j \in hits : i <= j

\* link.classList.add("b-keys-menu__link_active") on the link the selector finds
MarkActive(keyListEl, key) ==
    LET i == QueryLink(keyListEl, key)
    IN IF i = 0 THEN keyListEl ELSE [keyListEl EXCEPT ![i].active = TRUE]

EmptyView == [kind |-> "text", v |-> <<>>]
\* $valueView.JSONView(value)
JSONView(value) == [kind |-> "json", v |-> value]
\* $valueView.text(value)
TextView(value) == [kind |-> "text", v |-> value.v]

EmptyInfo == [shown |-> FALSE, type |-> "", len |-> 0]

InitialMessage == [kind |-> "initial", name |-> "", n |-> 0]
LoadedMessage(n) == [kind |-> "loaded", name |-> "", n |-> n]
EmptyMessage(name) == [kind |-> "empty", name |-> name, n |-> 0]
ErrorMessage(name) == [kind |-> "error", name |-> name, n |-> 0]

----------------------------------------------------------------------------
(* WebStorageExplorer: the methods as functions of the instance u *)

Min(a, b) == IF a <= b THEN a ELSE b

\* keyList.indexOf(key)
IndexOf(keyList, key) ==
    LET hits == {i \in 1..Len(keyList) : keyList[i] = key}
    IN IF hits = {} THEN -1 ELSE (CHOOSE i \in hits : \A j \in hits : i <= j) - 1

\* A clear that keeps the selection whatever its flag says; the property of
\* the storage-type change must tell it from the real one.
clearKeepingSelection(u, shouldSaveLastShownKey) ==
    [u EXCEPT !.storage = <<>>,
              !.keyListEl = <<>>,
              !.valueView = EmptyView,
              !.valueInfo = EmptyInfo,
              !.toolsHidden = TRUE]

\* A clear that leaves the rendered key list as it is; the agreement of the
\* list and the storage map must tell it from the real one.
clearLeavingKeyList(u, shouldSaveLastShownKey) ==
    [u EXCEPT !.storage = <<>>,
              !.lastShownKey = IF shouldSaveLastShownKey THEN @ ELSE <<>>,
              !.lastShownKeyIndex = IF shouldSaveLastShownKey THEN @ ELSE -1,
              !.valueView = EmptyView,
              !.valueInfo = EmptyInfo,
              !.toolsHidden = TRUE]

\* A clear that forgets the selection whatever its flag says; the property
\* of its two modes must tell it from the real one.
clearForgettingSelection(u, shouldSaveLastShownKey) ==
    [u EXCEPT !.storage = <<>>,
              !.lastShownKey = <<>>,
              !.lastShownKeyIndex = -1,
              !.keyListEl = <<>>,
              !.valueView = EmptyView,
              !.valueInfo = EmptyInfo,
              !.toolsHidden = TRUE]

clear(u, shouldSaveLastShownKey) ==
    [u EXCEPT !.storage = <<>>,
              !.lastShownKey = IF shouldSaveLastShownKey THEN @ ELSE <<>>,
              !.lastShownKeyIndex = IF shouldSaveLastShownKey THEN @ ELSE -1,
              !.keyListEl = <<>>,
              !.valueView = EmptyView,
              !.valueInfo = EmptyInfo,
              !.toolsHidden = TRUE]

showInfoForValue(u, type, len) ==
    [u EXCEPT !.valueInfo = [shown |-> TRUE, type |-> type, len |-> len]]

showValueForKey(u, key) ==
    IF key \notin DOMAIN u.storage THEN u
    ELSE LET data == u.storage[key]
             structured == data.type = "object" \/ data.type = "array"
         IN showInfoForValue(
                [u EXCEPT !.initialText.shown = FALSE,
                          !.valueView = IF structured THEN JSONView(data.value)
                                        ELSE TextView(data.value),
                          !.toolsHidden = ~structured,
                          !.lastShownKey = key],
                data.type, data.len)

showInitialText(u) ==
    IF u.lastShownKey = <<>>
    THEN [u EXCEPT !.initialText =
                [text |-> IF Cardinality(DOMAIN u.storage) # 0
                          THEN LoadedMessage(Cardinality(DOMAIN u.storage))
                          ELSE EmptyMessage(u.currentStorageName),
                 shown |-> TRUE]]
    ELSE [u EXCEPT !.initialText.shown = FALSE]

showStorageInfo(u, storageInfo) ==
    [u EXCEPT !.labels = [ls |-> storageInfo.ls, ss |-> storageInfo.ss]]

renderStorageKeys(u) ==
    [u EXCEPT !.keyListEl =
        [i \in 1..Len(u.keyList) |->
            [dataKey |-> EscapeHtml(u.keyList[i]),
             icon |-> IF u.storage[u.keyList[i]].type \in DOMAIN ICON_TYPE
                      THEN ICON_TYPE[u.storage[u.keyList[i]].type]
                      ELSE "question",
             active |-> FALSE]]]

\* A method that can throw returns [app, threw].
Done(u) == [app |-> u, threw |-> FALSE]
Threw(u) == [app |-> u, threw |-> TRUE]

\* A _tryToShowLastKey that shows the key after the one shown last; the
\* idempotence of reload must tell it from the real one.
tryToShowKeyAfterLast(u) ==
    LET idx == (u.lastShownKeyIndex + 1) % Len(u.keyList)
        key == u.keyList[idx + 1]
        u1 == showValueForKey([u EXCEPT !.lastShownKeyIndex = idx], key)
    IN IF SelectorThrows(key) THEN Threw(u1)
       ELSE Done([u1 EXCEPT !.keyListEl = MarkActive(@, key)])

tryToShowLastKey(u) ==
    LET u1 == showValueForKey(u, u.lastShownKey)
    IN IF SelectorThrows(u.lastShownKey) THEN Threw(u1)
       ELSE Done([u1 EXCEPT !.keyListEl = MarkActive(@, u.lastShownKey)])

\* A _tryToSelectNextKey that takes the index -1 of "nothing selected" for
\* the first position; a refresh without a previous selection must tell it
\* from the real one.
tryToSelectNextKeyFromFirst(u) ==
    IF Len(u.keyList) # 0
    THEN LET idx == Min(IF u.lastShownKeyIndex = -1 THEN 0 ELSE u.lastShownKeyIndex,
                        Len(u.keyList) - 1)
             key == u.keyList[idx + 1]
             u1 == [u EXCEPT !.lastShownKeyIndex = idx]
         IN IF key # <<>>
            THEN LET u2 == showValueForKey(u1, key)
                 IN IF SelectorThrows(key) THEN Threw(u2)
                    ELSE Done([u2 EXCEPT !.keyListEl = MarkActive(@, key)])
            ELSE Done(u1)
    ELSE Done(u)

tryToSelectNextKey(u) ==
    IF u.lastShownKeyIndex # -1 /\ Len(u.keyList) # 0
    THEN LET idx == Min(u.lastShownKeyIndex, Len(u.keyList) - 1)
             key == u.keyList[idx + 1]
             u1 == [u EXCEPT !.lastShownKeyIndex = idx]
         IN IF key # <<>>
            THEN LET u2 == showValueForKey(u1, key)
                 IN IF SelectorThrows(key) THEN Threw(u2)
                    ELSE Done([u2 EXCEPT !.keyListEl = MarkActive(@, key)])
            ELSE Done(u1)
    ELSE Done(u)

checkForLastKey(u) ==
    IF u.loadedByUpdate
    THEN LET u1 == [u EXCEPT !.loadedByUpdate = FALSE]
         IN IF u1.lastShownKey # <<>> /\ u1.lastShownKey \in DOMAIN u1.storage
            THEN tryToShowLastKey(u1)
            ELSE tryToSelectNextKey(u1)
    ELSE Done(u)

\* parsedStorage: the fetched snapshot, a sequence of [key, raw] in Object.keys order
SnapshotKeys(parsedStorage) == [i \in 1..Len(parsedStorage) |-> parsedStorage[i].key]

RawOf(parsedStorage, key) ==
    LET i == CHOOSE j \in 1..Len(parsedStorage) : parsedStorage[j].key = key
    IN parsedStorage[i].raw

\* A _parseAndRenderStorage that keeps the entries of the previous snapshot
\* (no this.storage.clear()); the property of the entire replacement must
\* tell it from the real one.
parseAndRenderStorageMerging(u, parsedStorage) ==
    LET keys == SnapshotKeys(parsedStorage)
        fetched == {keys[i] : i \in 1..Len(keys)}
        u1 == [u EXCEPT !.keyList = keys]
        u2 == IF Len(keys) # 0
              THEN renderStorageKeys(
                       [u1 EXCEPT !.storage =
                           [k \in (DOMAIN u.storage) \cup fetched |->
                               IF k \in fetched THEN EntryOf(RawOf(parsedStorage, k))
                               ELSE u.storage[k]]])
              ELSE clear(u1, FALSE)
    IN checkForLastKey(showInitialText(u2))

\* A _parseAndRenderStorage that does not call clear() for an empty
\* snapshot; the property of removing the only key must tell it from the
\* real one.
parseAndRenderStorageWithoutClear(u, parsedStorage) ==
    LET keys == SnapshotKeys(parsedStorage)
        u1 == [u EXCEPT !.storage = <<>>, !.keyList = keys]
        u2 == IF Len(keys) # 0
              THEN renderStorageKeys(
                       [u1 EXCEPT !.storage =
                           [k \in {keys[i] : i \in 1..Len(keys)} |->
                               EntryOf(RawOf(parsedStorage, k))]])
              ELSE u1
    IN checkForLastKey(showInitialText(u2))

parseAndRenderStorage(u, parsedStorage) ==
    LET keys == SnapshotKeys(parsedStorage)
        u1 == [u EXCEPT !.storage = <<>>, !.keyList = keys]
        u2 == IF Len(keys) # 0
              THEN renderStorageKeys(
                       [u1 EXCEPT !.storage =
                           [k \in {keys[i] : i \in 1..Len(keys)} |->
                               EntryOf(RawOf(parsedStorage, k))]])
              ELSE clear(u1, FALSE)
    IN checkForLastKey(showInitialText(u2))

\* A normalisation that lets every name through; the property of the names
\* sent to the host must tell it from the real one.
NormalizeNameKeeping(storageType) == storageType

\* retrieveStorage up to its await: the storage name is normalised
NormalizeName(storageType) ==
    IF storageType \in {"localStorage", "sessionStorage"} THEN storageType ELSE "localStorage"

retrieveStorageCall(u, storageType) ==
    [u EXCEPT !.currentStorageName = NormalizeName(storageType)]

\* A catch block that also empties the rendered key list and forgets the
\* selection; the property of a failed retrieval must tell it from the real one.
retrieveStorageCatchClearing(u) ==
    [u EXCEPT !.initialText = [text |-> ErrorMessage(u.currentStorageName), shown |-> TRUE],
              !.keyListEl = <<>>,
              !.lastShownKey = <<>>,
              !.lastShownKeyIndex = -1]

\* the catch block of retrieveStorage
retrieveStorageCatch(u) ==
    [u EXCEPT !.initialText = [text |-> ErrorMessage(u.currentStorageName), shown |-> TRUE]]

\* retrieveStorage after its await, for the settled request r
Succeeded(r) == r.info.st = "ok" /\ r.snap.st = "ok"
Rejected(r) == r.info.st = "err" \/ r.snap.st = "err"

\* A retrieveStorage that stamps its calls and drops the result of a call
\* overtaken by a later one; the property that the last completion wins must
\* tell it from the real one.
retrieveStorageResumeLatestIssued(u, r) ==
    IF r.stale THEN u
    ELSE IF Rejected(r) THEN retrieveStorageCatch(u)
    ELSE LET res == parseAndRenderStorage(showStorageInfo(u, r.info.val), r.snap.val)
         IN IF res.threw THEN retrieveStorageCatch(res.app) ELSE res.app

retrieveStorageResume(u, r) ==
    IF Rejected(r) THEN retrieveStorageCatch(u)
    ELSE LET res == parseAndRenderStorage(showStorageInfo(u, r.info.val), r.snap.val)
         IN IF res.threw THEN retrieveStorageCatch(res.app) ELSE res.app

\* update() up to the await inside retrieveStorage
update(u) ==
    retrieveStorageCall([u EXCEPT !.loadedByUpdate = TRUE], u.currentStorageName)

----------------------------------------------------------------------------
(* The inspected page and the host bridge *)

\* Keys the page's storage areas hold: the empty key, a plain key and a key
\* that is a double quote.
KeyPool == {<<>>, <<"a">>, <<"\"">>}

\* The raw value the page stores under each key.
InitialRaw(key) ==
    CASE key = <<>> -> <<"{", "}">>
      [] key = <<"a">> -> <<"a">>
      [] OTHER -> <<"[", "1", "]">>

Range(f) == {f[i] : i \in DOMAIN f}

RECURSIVE KeyOrders(_)
\* the sequences of at most n distinct keys
KeyOrders(n) ==
    IF n <= 0 THEN {<<>>}
    ELSE LET shorter == KeyOrders(n - 1)
         IN shorter \cup {Append(x, k) : x \in {y \in shorter : Len(y) = n - 1},
                                         k \in KeyPool}

Injective(x) == \A i, j \in 1..Len(x) : x[i] = x[j] => i = j

InitialAreas(n) ==
    {[i \in 1..Len(x) |-> [key |-> x[i], raw |-> InitialRaw(x[i])]] :
        x \in {y \in KeyOrders(n) : Injective(y)}}

AreaKeys(area) == {area[i].key : i \in 1..Len(area)}

\* Storage.setItem on the page
SetItem(area, key, raw) ==
    IF key \in AreaKeys(area)
    THEN [i \in 1..Len(area) |-> IF area[i].key = key THEN [key |-> key, raw |-> raw] ELSE area[i]]
    ELSE Append(area, [key |-> key, raw |-> raw])

RECURSIVE Without(_, _)
Without(area, key) ==
    IF area = <<>> THEN <<>>
    ELSE IF Head(area).key = key THEN Without(Tail(area), key)
    ELSE <<Head(area)>> \o Without(Tail(area), key)

\* Storage.removeItem on the page
RemoveItem(area, key) == Without(area, key)

RemoveAt(seq, i) == SubSeq(seq, 1, i - 1) \o SubSeq(seq, i + 1, Len(seq))

\* One inspectedWindow.eval in flight: sent, or settled with a result or an exception.
SentInfo == [st |-> "sent", val |-> [ls |-> 0, ss |-> 0]]
SentSnap == [st |-> "sent", val |-> <<>>]

\* getStoragesInfo evaluated on the page
getStoragesInfo == [st |-> "ok",
                    val |-> [ls |-> Len(remote.localStorage), ss |-> Len(remote.sessionStorage)]]

\* getStorageByName evaluated on the page: JSON.stringify of the area, parsed
\* back by the driver (string keys and values survive the round trip; none
\* of the keys of KeyPool is an integer index, so Object.keys keeps the order).
getStorageByName(name) == [st |-> "ok", val |-> remote[name]]

\* A retrieveStorage call suspended at its await: the storage it asked for,
\* its two evaluations, and as history the handler that made it ("switch",
\* "reload", "remove", "clear", or "update" for init() and the panel being
\* shown) and whether a call made after it has already installed its
\* snapshot.
NewRequest(name, by) ==
    [name |-> name, by |-> by, stale |-> FALSE, info |-> SentInfo, snap |-> SentSnap]

NoRequest == NewRequest("", "")

\* history: the call that resumed in the last step, if one did, and whether
\* a retrieveStorage call has failed so far
NoCompletion == [op |-> "other", req |-> NoRequest, failed |-> FALSE]
Completion(r) == [op |-> "Complete", req |-> r, failed |-> Rejected(r)]
\* history: in the last step a rejection left an async listener that has no
\* try/catch, so that nothing handles it
UnhandledRejection == [op |-> "unhandledrejection", req |-> NoRequest, failed |-> FALSE]

----------------------------------------------------------------------------
(* History of a pair of successive reloads: "once" while the first reload  *)
(* is in flight, "first" when it has succeeded, "again" while the next one *)
(* is in flight, with the view the previous reload left, "second" when it  *)
(* has succeeded too. Any other event in between ends the pair.            *)
(* A reload that fails leaves "failed", and "retry" is the reload made     *)
(* next while it is in flight.                                             *)

View(u) == [keyListEl |-> u.keyListEl, lastShownKey |-> u.lastShownKey,
            valueView |-> u.valueView]

NoIdem == [phase |-> "none", view |-> <<>>]

Quiescent == pending = <<>> /\ mutations = <<>>

----------------------------------------------------------------------------
(* Initial state: the panel page has run the WebStorageExplorer constructor *)
(* and init() is suspended in update() -> retrieveStorage().                *)

\* values of the "storage" setting; "" stands for an absent setting
SettingValues == {"", "localStorage", "sessionStorage", "cookies"}

\* the field initialisers of WebStorageExplorer and the panel's markup
NewApp ==
    [storage |-> <<>>,
     keyList |-> <<>>,
     currentStorageName |-> DEFAULT_STORAGE,
     lastShownKey |-> <<>>,
     lastShownKeyIndex |-> -1,
     loadedByUpdate |-> FALSE,
     keyListEl |-> <<>>,
     valueView |-> EmptyView,
     valueInfo |-> EmptyInfo,
     toolsHidden |-> TRUE,
     initialText |-> [text |-> InitialMessage, shown |-> TRUE],
     labels |-> [ls |-> -1, ss |-> -1],
     selectValue |-> DEFAULT_STORAGE]

\* _loadSettings
loadSettings(u, setting) ==
    [u EXCEPT !.currentStorageName = IF setting # "" THEN setting ELSE DEFAULT_STORAGE]

\* updateUI: a select takes a value only if one of its options has it
updateUI(u) ==
    [u EXCEPT !.selectValue = IF u.currentStorageName \in StorageNames
                              THEN u.currentStorageName ELSE ""]

\* init() up to its await
init(setting) == update(updateUI(loadSettings(NewApp, setting)))

NoProbe == [raw |-> <<>>, done |-> FALSE, entry |-> EntryOf(<<>>)]

Init ==
    /\ remote \in [localStorage : InitialAreas(MaxInitKeys),
                   sessionStorage : InitialAreas(0)]
    /\ app = init("")
    /\ pending = <<NewRequest(init("").currentStorageName, "update")>>
    /\ mutations = <<>>
    /\ appShownFirst = FALSE
    /\ searchListeners = 0
    /\ probe = NoProbe
    /\ idem = NoIdem
    /\ budget = 0
    /\ last = NoCompletion

\* the history h of a step, after the history so far
Since(h) == [h EXCEPT !.failed = @ \/ last.failed]

----------------------------------------------------------------------------
(* Steps *)

\* every removeKey / clearStorage in flight will change the storage or fail
CanSpend ==
    budget + Cardinality({i \in 1..Len(mutations) : mutations[i].st = "sent"}) < MaxEnvEvents

Spend == budget' = budget + 1
CanIssue == Len(pending) + Len(mutations) < MaxInFlight

\* the handler reached its await inside retrieveStorage: one more call in flight
Issue(u, by) ==
    /\ app' = u
    /\ pending' = Append(pending, NewRequest(u.currentStorageName, by))

\* keyList "click" listener, on the i-th rendered link
KeyListClick(i) ==
    /\ i \in 1..Len(app.keyListEl)
    /\ LET key == DataKey(app.keyListEl[i])
           actives == {j \in 1..Len(app.keyListEl) : app.keyListEl[j].active}
           currentActive == IF actives = {} THEN 0
                            ELSE CHOOSE j \in actives : \A k \in actives : j <= k
           links == [j \in 1..Len(app.keyListEl) |->
                        [app.keyListEl[j] EXCEPT
                            !.active = IF j = i THEN TRUE
                                       ELSE IF j = currentActive THEN FALSE ELSE @]]
           u1 == showValueForKey([app EXCEPT !.keyListEl = links], key)
       IN app' = [u1 EXCEPT !.lastShownKeyIndex = IndexOf(u1.keyList, key)]
    /\ UNCHANGED budget
    /\ idem' = NoIdem
    /\ last' = Since(NoCompletion)
    /\ UNCHANGED <<remote, pending, mutations, appShownFirst, searchListeners, probe>>

\* selectStorage "change" listener
SelectStorageChange(value) ==
    /\ CanIssue
    /\ value \in StorageNames /\ value # app.selectValue
    /\ Issue(retrieveStorageCall(
                 [clear(app, FALSE) EXCEPT !.lastShownKey = <<>>, !.selectValue = value],
                 value),
             "switch")
    /\ UNCHANGED budget
    /\ idem' = NoIdem
    /\ last' = Since(NoCompletion)
    /\ UNCHANGED <<remote, mutations, appShownFirst, searchListeners, probe>>

\* reloadBtn "click" listener
ReloadClick ==
    /\ CanIssue
    /\ Issue(update(clear(app, TRUE)), "reload")
    /\ UNCHANGED budget
    /\ idem' = IF ~Quiescent THEN NoIdem
               ELSE IF idem.phase \in {"first", "second"}
                    THEN [phase |-> "again", view |-> View(app)]
               ELSE IF idem.phase = "failed"
                    THEN [phase |-> "retry", view |-> <<>>]
               ELSE [phase |-> "once", view |-> <<>>]
    /\ last' = Since(NoCompletion)
    /\ UNCHANGED <<remote, mutations, appShownFirst, searchListeners, probe>>

\* removeBtn "click" listener up to its await (nothing happens without a shown key)
RemoveClick ==
    /\ CanIssue /\ CanSpend
    /\ app.lastShownKey # <<>>
    /\ mutations' = Append(mutations, [kind |-> "remove", name |-> app.currentStorageName,
                                       key |-> app.lastShownKey, st |-> "sent"])
    /\ UNCHANGED budget
    /\ idem' = NoIdem
    /\ last' = Since(NoCompletion)
    /\ UNCHANGED <<remote, pending, app, appShownFirst, searchListeners, probe>>

\* clearStorageConfirmBtn "click" listener up to its await
ClearStorageConfirmClick ==
    /\ CanIssue /\ CanSpend
    /\ mutations' = Append(mutations, [kind |-> "clear", name |-> app.currentStorageName,
                                       key |-> <<>>, st |-> "sent"])
    /\ UNCHANGED budget
    /\ idem' = NoIdem
    /\ last' = Since(NoCompletion)
    /\ UNCHANGED <<remote, pending, app, appShownFirst, searchListeners, probe>>

\* the page runs the script of removeKey / clearStorage
MutationEval(i) ==
    /\ i \in 1..Len(mutations)
    /\ mutations[i].st = "sent"
    /\ LET m == mutations[i]
       IN remote' = [remote EXCEPT ![m.name] = IF m.kind = "remove"
                                               THEN RemoveItem(@, m.key) ELSE <<>>]
    /\ mutations' = [mutations EXCEPT ![i].st = "ok"]
    /\ last' = Since(NoCompletion)
    /\ Spend
    /\ UNCHANGED <<pending, app, appShownFirst, searchListeners, probe, idem>>

\* the evaluation of the script fails (isException)
MutationEvalFail(i) ==
    /\ i \in 1..Len(mutations)
    /\ mutations[i].st = "sent"
    /\ mutations' = [mutations EXCEPT ![i].st = "err"]
    /\ Spend
    /\ idem' = NoIdem
    /\ last' = Since(NoCompletion)
    /\ UNCHANGED <<remote, pending, app, appShownFirst, searchListeners, probe>>

\* the remove / clear listener resumes after its first await
MutationResume(i) ==
    /\ i \in 1..Len(mutations)
    /\ mutations[i].st # "sent"
    /\ mutations' = RemoveAt(mutations, i)
    /\ IF mutations[i].st = "ok"
       THEN Issue(update(clear(app, mutations[i].kind = "remove")),
                  mutations[i].kind)
       ELSE UNCHANGED <<app, pending>>
    /\ idem' = NoIdem
    /\ last' = Since(IF mutations[i].st = "ok" THEN NoCompletion ELSE UnhandledRejection)
    /\ UNCHANGED <<remote, appShownFirst, searchListeners, probe, budget>>

\* panel.onShown listener of devtools.js
\* A listener that adds the search listener at every show; the property of
\* the panel's lifecycle must tell it from the real one.
PanelShownRegisteringAgain ==
    /\ IF appShownFirst
       THEN /\ CanIssue
            /\ Issue(update(app), "update")
            /\ searchListeners' = searchListeners + 1
            /\ UNCHANGED appShownFirst
       ELSE /\ appShownFirst' = TRUE
            /\ searchListeners' = searchListeners + 1
            /\ UNCHANGED <<app, pending>>
    /\ UNCHANGED budget
    /\ idem' = NoIdem
    /\ last' = Since(NoCompletion)
    /\ UNCHANGED <<remote, mutations, probe>>

PanelShown ==
    /\ IF appShownFirst
       THEN /\ CanIssue
            /\ Issue(update(app), "update")
            /\ UNCHANGED <<appShownFirst, searchListeners>>
       ELSE /\ appShownFirst' = TRUE
            /\ searchListeners' = searchListeners + 1
            /\ UNCHANGED <<app, pending>>
    /\ UNCHANGED budget
    /\ idem' = NoIdem
    /\ last' = Since(NoCompletion)
    /\ UNCHANGED <<remote, mutations, probe>>

\* the page runs the script of getStoragesInfo for the i-th call in flight
EvalInfo(i) ==
    /\ i \in 1..Len(pending)
    /\ pending[i].info.st = "sent"
    /\ pending' = [pending EXCEPT ![i].info = getStoragesInfo]
    /\ last' = Since(NoCompletion)
    /\ UNCHANGED <<remote, mutations, app, appShownFirst, searchListeners, probe, idem, budget>>

\* the page runs the script of getStorageByName for the i-th call in flight
EvalSnap(i) ==
    /\ i \in 1..Len(pending)
    /\ pending[i].snap.st = "sent"
    /\ pending[i].info.st # "sent"
    /\ pending' = [pending EXCEPT ![i].snap = getStorageByName(pending[i].name)]
    /\ last' = Since(NoCompletion)
    /\ UNCHANGED <<remote, mutations, app, appShownFirst, searchListeners, probe, idem, budget>>

\* one of the two evaluations of the i-th call fails (isException)
EvalFail(i, which) ==
    /\ CanSpend
    /\ i \in 1..Len(pending)
    /\ pending[i][which].st = "sent"
    /\ which = "snap" => pending[i].info.st # "sent"
    /\ pending' = [pending EXCEPT ![i][which].st = "err"]
    /\ Spend
    /\ last' = Since(NoCompletion)
    /\ UNCHANGED <<remote, mutations, app, appShownFirst, searchListeners, probe, idem>>

\* Promise.all of the i-th call settles and retrieveStorage resumes
Complete(i) ==
    /\ i \in 1..Len(pending)
    /\ Rejected(pending[i]) \/ Succeeded(pending[i])
    /\ app' = retrieveStorageResume(app, pending[i])
    /\ pending' = RemoveAt([j \in 1..Len(pending) |->
                                [pending[j] EXCEPT !.stale = @ \/ (j < i /\ Succeeded(pending[i]))]],
                            i)
    /\ idem' = IF idem.phase \in {"once", "again", "retry"} /\ Rejected(pending[i])
               THEN [phase |-> "failed", view |-> <<>>]
               ELSE IF idem.phase \in {"once", "retry"} /\ Succeeded(pending[i])
               THEN [phase |-> "first", view |-> <<>>]
               ELSE IF idem.phase = "again" /\ Succeeded(pending[i])
                    THEN [idem EXCEPT !.phase = "second"]
               ELSE NoIdem
    /\ last' = Since(Completion(pending[i]))
    /\ UNCHANGED <<remote, mutations, appShownFirst, searchListeners, probe, budget>>

\* the inspected page changes its own storage
PageSetItem(name, key) ==
    /\ CanSpend
    /\ key \notin AreaKeys(remote[name])
    /\ remote' = [remote EXCEPT ![name] = SetItem(@, key, InitialRaw(key))]
    /\ Spend
    /\ idem' = NoIdem
    /\ last' = Since(NoCompletion)
    /\ UNCHANGED <<pending, mutations, app, appShownFirst, searchListeners, probe>>

PageRemoveItem(name, key) ==
    /\ CanSpend
    /\ key \in AreaKeys(remote[name])
    /\ remote' = [remote EXCEPT ![name] = RemoveItem(@, key)]
    /\ Spend
    /\ idem' = NoIdem
    /\ last' = Since(NoCompletion)
    /\ UNCHANGED <<pending, mutations, app, appShownFirst, searchListeners, probe>>

Next ==
    \/ \E i \in 1..Cardinality(KeyPool) : KeyListClick(i)
    \/ \E value \in StorageNames : SelectStorageChange(value)
    \/ ReloadClick
    \/ RemoveClick
    \/ ClearStorageConfirmClick
    \/ PanelShown
    \/ \E i \in 1..MaxInFlight : MutationEval(i)
    \/ \E i \in 1..MaxInFlight : MutationEvalFail(i)
    \/ \E i \in 1..MaxInFlight : MutationResume(i)
    \/ \E i \in 1..MaxInFlight : EvalInfo(i)
    \/ \E i \in 1..MaxInFlight : EvalSnap(i)
    \/ \E i \in 1..MaxInFlight, which \in {"info", "snap"} : EvalFail(i, which)
    \/ \E i \in 1..MaxInFlight : Complete(i)
    \/ \E name \in StorageNames, key \in KeyPool : PageSetItem(name, key)
    \/ \E name \in StorageNames, key \in KeyPool : PageRemoveItem(name, key)

Spec == Init /\ [][Next]_vars

----------------------------------------------------------------------------
(* The panel started with any value of the "storage" setting *)

InitSettings ==
    /\ remote \in [localStorage : InitialAreas(MaxSettingsKeys),
                   sessionStorage : InitialAreas(0)]
    /\ \E setting \in SettingValues :
          /\ app = init(setting)
          /\ pending = <<NewRequest(init(setting).currentStorageName, "update")>>
    /\ mutations = <<>>
    /\ appShownFirst = FALSE
    /\ searchListeners = 0
    /\ probe = NoProbe
    /\ idem = NoIdem
    /\ budget = 0
    /\ last = NoCompletion

SpecSettings == InitSettings /\ [][Next]_vars

----------------------------------------------------------------------------
(* The entry derivation alone: _parseAndRenderStorage builds the entry of *)
(* one raw string, every string over Chars of at most MaxRawLen characters *)

InitJSON ==
    /\ probe \in {[raw |-> s, done |-> FALSE, entry |-> EntryOf(<<>>)] : s \in RawStrings}
    /\ remote = [localStorage |-> <<>>, sessionStorage |-> <<>>]
    /\ app = NewApp
    /\ pending = <<>>
    /\ mutations = <<>>
    /\ appShownFirst = FALSE
    /\ searchListeners = 0
    /\ idem = NoIdem
    /\ budget = 0
    /\ last = NoCompletion

\* this.storage.set(key, {value, len, type}) for the raw value probe.raw
StoreEntry ==
    /\ ~probe.done
    /\ probe' = [probe EXCEPT !.done = TRUE, !.entry = EntryOf(probe.raw)]
    /\ UNCHANGED <<remote, pending, mutations, app, appShownFirst, searchListeners,
                   idem, budget, last>>

NextJSON == StoreEntry

SpecJSON == InitJSON /\ [][NextJSON]_vars

----------------------------------------------------------------------------
(* guessType alone, applied to one value: every value JSON.parse gives for *)
(* a raw string of RawStrings (null, booleans, numbers, strings, arrays,   *)
(* objects), undefined, a function and a symbol                            *)

ParsedValues == {JSONParse(s).v : s \in {x \in RawStrings : JSONParse(x).ok}}

Values == ParsedValues \cup {Undefined, Function, Symbol}

InitGuess ==
    /\ probe \in {[val |-> v, done |-> FALSE, type |-> ""] : v \in Values}
    /\ remote = [localStorage |-> <<>>, sessionStorage |-> <<>>]
    /\ app = NewApp
    /\ pending = <<>>
    /\ mutations = <<>>
    /\ appShownFirst = FALSE
    /\ searchListeners = 0
    /\ idem = NoIdem
    /\ budget = 0
    /\ last = NoCompletion

\* WebStorageExplorer.guessType(probe.val)
GuessType ==
    /\ ~probe.done
    /\ probe' = [probe EXCEPT !.done = TRUE, !.type = guessType(probe.val)]
    /\ UNCHANGED <<remote, pending, mutations, app, appShownFirst, searchListeners,
                   idem, budget, last>>

NextGuess == GuessType

SpecGuess == InitGuess /\ [][NextGuess]_vars

----------------------------------------------------------------------------
(* handleSearch alone: the DevTools search events reach the instance while *)
(* the value view shows one text. A highlight is the <mark> element that   *)
(* mark.js puts around one match: where it starts and how long it is.      *)

\* the actions chrome.devtools.panels.ExtensionPanel.onSearch reports
SearchActions == {"performSearch", "cancelSearch", "nextSearchResult", "previousSearchResult"}

SearchChars == {"a", "b"}

RECURSIVE TextsUpTo(_)
TextsUpTo(n) ==
    IF n = 0 THEN {<<>>}
    ELSE LET shorter == TextsUpTo(n - 1)
         IN shorter \cup {Append(s, c) : s \in {x \in shorter : Len(x) = n - 1}, c \in SearchChars}

\* keyword is the empty sequence when the event has no query string
Keywords == TextsUpTo(MaxKeywordLen)

\* the matches of keyword in text from position from on, found as a global
\* regular expression finds them: leftmost first, none overlapping another
RECURSIVE Matches(_, _, _)
Matches(text, keyword, from) ==
    IF from + Len(keyword) - 1 > Len(text) THEN {}
    ELSE IF SubSeq(text, from, from + Len(keyword) - 1) = keyword
         THEN {[at |-> from, len |-> Len(keyword)]} \cup Matches(text, keyword, from + Len(keyword))
         ELSE Matches(text, keyword, from + 1)

\* $valueView.unmark()
unmark(marks) == {}

\* $valueView.mark(keyword)
mark(text, marks, keyword) == marks \cup Matches(text, keyword, 1)

\* A handleSearch that does not remove the highlights there are; the
\* property of the search events must tell it from the real one.
handleSearchKeepingMarks(text, marks, action, keyword) ==
    IF action = "performSearch" /\ keyword # <<>>
    THEN mark(text, marks, keyword)
    ELSE unmark(marks)

handleSearch(text, marks, action, keyword) ==
    LET unmarked == unmark(marks)
    IN IF action = "performSearch" /\ keyword # <<>>
       THEN mark(text, unmarked, keyword)
       ELSE unmarked

NoSearch == [action |-> "", keyword |-> <<>>]

InitSearch ==
    /\ probe \in {[text |-> t, marks |-> {}, before |-> {}, event |-> NoSearch] :
                      t \in TextsUpTo(MaxTextLen)}
    /\ remote = [localStorage |-> <<>>, sessionStorage |-> <<>>]
    /\ app = NewApp
    /\ pending = <<>>
    /\ mutations = <<>>
    /\ appShownFirst = TRUE
    /\ searchListeners = 1
    /\ idem = NoIdem
    /\ budget = 0
    /\ last = NoCompletion

\* the search listener is called with (action, keyword)
HandleSearch(action, keyword) ==
    /\ probe' = [probe EXCEPT !.marks = handleSearch(probe.text, probe.marks, action, keyword),
                              !.before = probe.marks,
                              !.event = [action |-> action, keyword |-> keyword]]
    /\ UNCHANGED <<remote, pending, mutations, app, appShownFirst, searchListeners,
                   idem, budget, last>>

NextSearch == \E action \in SearchActions, keyword \in Keywords : HandleSearch(action, keyword)

SpecSearch == InitSearch /\ [][NextSearch]_vars

----------------------------------------------------------------------------
(* Properties *)

\* the call that resumed in the step just taken, and what it fetched
Resumed(by) == last.op = "Complete" /\ last.req.by = by
Fetched == SnapshotKeys(last.req.snap.val)

\* a reload was made with nothing in flight and nothing but its own two
\* evaluations has happened since
Undisturbed == idem.phase \in {"once", "again", "retry"}

NoSelection(u) ==
    /\ u.lastShownKey = <<>>
    /\ u.lastShownKeyIndex = -1
    /\ u.valueView = EmptyView
    /\ u.valueInfo = EmptyInfo

\* the value view and the metadata strip show the entry of key
Displays(u, key) ==
    LET data == u.storage[key]
        structured == data.type \in {"object", "array"}
    IN /\ u.valueView.kind = IF structured THEN "json" ELSE "text"
       /\ u.valueView = IF structured THEN JSONView(data.value) ELSE TextView(data.value)
       /\ u.valueInfo = [shown |-> TRUE, type |-> data.type, len |-> data.len]

ActiveKeys(u) == {DataKey(u.keyListEl[i]) : i \in {j \in 1..Len(u.keyListEl) : u.keyListEl[j].active}}

EmptyShown(u) == u.initialText = [text |-> EmptyMessage(u.currentStorageName), shown |-> TRUE]
ErrorShown(u) == u.initialText = [text |-> ErrorMessage(u.currentStorageName), shown |-> TRUE]

\* C1: a retrieveStorage call that resumes after a call made later than it
\* has already installed its snapshot leaves the storage map, keyList and the
\* rendered key list as that later call left them.
C1_StaleCompletionKeepsSnapshot ==
    [][(last'.op = "Complete" /\ last'.req.stale /\ Succeeded(last'.req))
       => /\ app'.storage = app.storage
          /\ app'.keyList = app.keyList
          /\ app'.keyListEl = app.keyListEl]_vars

\* C2: when a reload, made with nothing else in flight, resumes with a
\* non-empty snapshot that lacks the key shown before (selected at index i),
\* the key at index min(i, len - 1) of the new keyList is shown, lastShownKey
\* is that key and lastShownKeyIndex is min(i, len - 1).
C2_DeletedSelectionMovesToClampedIndex ==
    [][(Resumed("reload")' /\ Succeeded(last'.req) /\ Undisturbed
          /\ app.lastShownKey # <<>> /\ app.lastShownKeyIndex >= 0
          /\ Fetched' # <<>> /\ app.lastShownKey \notin Range(Fetched'))
       => LET idx == Min(app.lastShownKeyIndex, Len(Fetched') - 1)
          IN /\ app'.lastShownKey = Fetched'[idx + 1]
             /\ app'.lastShownKeyIndex = idx
             /\ Displays(app', Fetched'[idx + 1])]_vars

\* C3: when a reload, made with nothing else in flight, resumes with a
\* snapshot that still holds the key k shown before, k is shown afterwards
\* (lastShownKey = k, its value and metadata displayed) and k's link is the
\* active one of the rendered key list.
C3_SurvivingSelectionReshown ==
    [][(Resumed("reload")' /\ Succeeded(last'.req) /\ Undisturbed
          /\ app.lastShownKey # <<>> /\ app.lastShownKey \in Range(Fetched'))
       => /\ app'.lastShownKey = app.lastShownKey
          /\ Displays(app', app.lastShownKey)
          /\ ActiveKeys(app') = {app.lastShownKey}]_vars

\* C4: when a reload, made with nothing else in flight, resumes with a
\* snapshot that still holds the key k shown before, lastShownKeyIndex is
\* afterwards the position of k in the new keyList, so that
\* keyList[lastShownKeyIndex] = lastShownKey.
C4_IndexFollowsKey ==
    [][(Resumed("reload")' /\ Succeeded(last'.req) /\ Undisturbed
          /\ app.lastShownKey # <<>> /\ app.lastShownKey \in Range(Fetched'))
       => /\ app'.lastShownKeyIndex = IndexOf(app'.keyList, app.lastShownKey)
          /\ app'.keyList[app'.lastShownKeyIndex + 1] = app'.lastShownKey]_vars

\* C5: a storage-type change leaves no key selected (lastShownKey empty,
\* lastShownKeyIndex -1, no value and no metadata displayed); no step other
\* than a click on a key ends that, so none is selected when the change's
\* retrieveStorage call resumes; and when that call fetched an empty storage
\* the "<storage> is empty" text is visible afterwards.
C5_SwitchClearsSelection ==
    [][/\ (\E value \in StorageNames : SelectStorageChange(value)) => NoSelection(app')
       /\ (NoSelection(app) /\ ~(\E i \in 1..Cardinality(KeyPool) : KeyListClick(i)))
              => NoSelection(app')
       /\ (Resumed("switch")' /\ Succeeded(last'.req) /\ Fetched' = <<>>)
              => NoSelection(app') /\ EmptyShown(app')]_vars

\* a storage-type change away from a storage with keys has resumed with an
\* empty sessionStorage
C5_Witness ==
    /\ Resumed("switch") /\ Succeeded(last.req) /\ Fetched = <<>>
    /\ last.req.name = "sessionStorage"
    /\ app.labels.ls > 0
    /\ NoSelection(app)
    /\ app.initialText = [text |-> EmptyMessage("sessionStorage"), shown |-> TRUE]

\* C6: the retrieveStorage call of a storage-type change never finds
\* loadedByUpdate set when it resumes, so that it never runs the selection
\* reconciliation and never consumes the flag an update() set.
C6_SwitchNeverReconciles ==
    [][(Resumed("switch")' /\ Succeeded(last'.req)) => ~app.loadedByUpdate]_vars

\* C7: of two successive reloads with nothing else happening in between, the
\* second leaves the rendered key list (active link included), the shown key
\* and the value view as the first left them.
C7_ReloadIdempotent ==
    idem.phase = "second" => View(app) = idem.view

\* a second successive reload has resumed with a key shown and marked active
\* in a list of two keys
C7_Witness ==
    /\ idem.phase = "second"
    /\ Len(app.keyListEl) = 2
    /\ app.lastShownKey # <<>>
    /\ ActiveKeys(app) = {app.lastShownKey}

\* C8: when the refresh that follows the removal of the shown key resumes with
\* an empty snapshot (the key was the only one), the key list, the value view
\* and the metadata strip are empty, no key is selected and the
\* "<storage> is empty" text is visible.
C8_RemoveOnlyKey ==
    (Resumed("remove") /\ Succeeded(last.req) /\ Fetched = <<>>) =>
        /\ app.keyListEl = <<>>
        /\ app.storage = <<>>
        /\ NoSelection(app)
        /\ EmptyShown(app)

\* the shown key has been removed and the refresh found the storage empty
C8_Witness ==
    /\ Resumed("remove") /\ Succeeded(last.req) /\ Fetched = <<>>
    /\ Len(app.keyList) = 0
    /\ remote[last.req.name] = <<>>
    /\ app.initialText.shown /\ app.initialText.text.kind = "empty"

\* C9: a retrieveStorage call whose evaluation of the counts or of the
\* snapshot failed changes, from the call to the end of its catch block,
\* nothing of the storage map, keyList, the rendered key list, the count
\* labels, lastShownKey and lastShownKeyIndex, and leaves the
\* "Error loading <storage>" text visible.
C9_FailedRetrieveKeepsState ==
    [][/\ \A name \in StorageNames :
              [retrieveStorageCall(app, name) EXCEPT !.currentStorageName = ""]
                  = [app EXCEPT !.currentStorageName = ""]
       /\ (last'.op = "Complete" /\ Rejected(last'.req))
              => /\ app'.storage = app.storage
                 /\ app'.keyList = app.keyList
                 /\ app'.keyListEl = app.keyListEl
                 /\ app'.labels = app.labels
                 /\ app'.lastShownKey = app.lastShownKey
                 /\ app'.lastShownKeyIndex = app.lastShownKeyIndex
                 /\ ErrorShown(app')]_vars

\* a refresh has failed while a key list was rendered and a key shown
C9_Witness ==
    /\ last.op = "Complete" /\ Rejected(last.req)
    /\ app.keyListEl # <<>>
    /\ app.lastShownKey # <<>>
    /\ app.labels.ls > 0
    /\ ErrorShown(app)

BeginsStructured(s) == startsWith(s, "{") \/ startsWith(s, "[") \/ startsWith(s, "\"")

\* C10: for every raw string beginning with '{', '[' or '"', the entry built
\* from it has, when the string is valid JSON, the decoded value as its value
\* and the decoded value's structural kind (object, array or string) as its
\* type; when it is not valid JSON, the type 'string' and the raw string
\* itself as its value.
C10_StructuredClassification ==
    (probe.done /\ BeginsStructured(probe.raw)) =>
        IF JSONParse(probe.raw).ok
        THEN /\ probe.entry.value = JSONParse(probe.raw).v
             /\ probe.entry.type = JSONParse(probe.raw).v.t
             /\ probe.entry.type \in {"object", "array", "string"}
        ELSE /\ probe.entry.value = Str(probe.raw)
             /\ probe.entry.type = "string"

\* a quoted string that is valid JSON has been classified
C10_Witness ==
    /\ probe.done
    /\ startsWith(probe.raw, "\"")
    /\ Len(probe.raw) = 3
    /\ JSONParse(probe.raw).ok
    /\ probe.entry.type = "string"
    /\ probe.entry.value = Str(SubSeq(probe.raw, 2, 2))

\* C11: for every raw string that does not begin with '{', '[' or '"' (the
\* empty string and the texts of JSON numbers, booleans and null included),
\* the entry built from it has the type 'string' and the raw string itself
\* as its value.
C11_PlainStringsStayStrings ==
    (probe.done /\ ~BeginsStructured(probe.raw)) =>
        /\ probe.entry.type = "string"
        /\ probe.entry.value = Str(probe.raw)

\* the text of a JSON number has been classified as a string
C11_Witness ==
    /\ probe.done
    /\ ~BeginsStructured(probe.raw)
    /\ JSONParse(probe.raw).ok /\ JSONParse(probe.raw).v.t = "number"
    /\ probe.entry = [value |-> Str(probe.raw), len |-> Len(probe.raw), type |-> "string"]

\* C12: when a retrieveStorage call has resumed successfully, the keys of the
\* storage map are exactly the keys of the fetched snapshot, keyList and the
\* rendered links are the fetched keys in the snapshot's order, and the len
\* of every entry is the length of the raw string.
C12_SnapshotReplacedEntirely ==
    (last.op = "Complete" /\ Succeeded(last.req)) =>
        /\ DOMAIN app.storage = Range(Fetched)
        /\ app.keyList = Fetched
        /\ [i \in 1..Len(app.keyListEl) |-> DataKey(app.keyListEl[i])] = Fetched
        /\ \A k \in Range(Fetched) :
               app.storage[k].len = Len(RawOf(last.req.snap.val, k))

\* a refresh has installed a snapshot of two keys, one of them holding an
\* array whose raw text has 3 characters
C12_Witness ==
    /\ last.op = "Complete" /\ Succeeded(last.req)
    /\ Len(Fetched) = 2
    /\ Len(app.keyListEl) = 2
    /\ \E k \in Range(Fetched) : app.storage[k].type = "array" /\ app.storage[k].len = 3

\* C13: every remove and every clear action is followed by a refresh: when
\* the listener of the action resumes after its mutating call and runs to
\* its end, it has made the retrieveStorage call of its update().
C13_MutationFollowedByRefresh ==
    [][(Len(mutations') < Len(mutations))
       => /\ Len(pending') = Len(pending) + 1
          /\ pending'[Len(pending')].by \in {"remove", "clear"}]_vars

\* C14: retrieveStorage treats every name other than 'localStorage' and
\* 'sessionStorage' as 'localStorage', whatever the settings store held at
\* start-up, and every fetch, remove and clear script in flight names
\* localStorage or sessionStorage.
C14_OnlyKnownStorageNames ==
    /\ \A value \in SettingValues :
           retrieveStorageCall(app, value).currentStorageName =
               IF value \in StorageNames THEN value ELSE "localStorage"
    /\ \A i \in 1..Len(pending) : pending[i].name \in StorageNames
    /\ \A i \in 1..Len(mutations) : mutations[i].name \in StorageNames

\* the panel was started with an unrecognised setting (the select matches no
\* option) and a remove or clear script is in flight
C14_Witness ==
    /\ app.selectValue = ""
    /\ mutations # <<>>
    /\ mutations[1].st = "sent"
    /\ mutations[1].name = "localStorage"

\* C15: a failed evaluation of any accessor operation is caught by the
\* controller code that called it: no rejection escapes unhandled.
C15_NoFailureEscapes ==
    last.op # "unhandledrejection"

\* C16: when a retrieveStorage call resumes with a non-empty snapshot and no
\* key has been shown since the selection was last reset (lastShownKey empty,
\* lastShownKeyIndex -1), no key is selected afterwards: lastShownKey is
\* still empty, no link is active, no value and no metadata are displayed and
\* the "loaded N items" text is visible, N the number of fetched keys.
C16_NoSelectionNoAutoSelect ==
    [][(last'.op = "Complete" /\ Succeeded(last'.req) /\ Fetched' # <<>>
          /\ app.lastShownKey = <<>> /\ app.lastShownKeyIndex = -1)
       => /\ app'.lastShownKey = <<>>
          /\ app'.lastShownKeyIndex = -1
          /\ ActiveKeys(app') = {}
          /\ app'.valueView = EmptyView
          /\ app'.valueInfo = EmptyInfo
          /\ app'.initialText = [text |-> LoadedMessage(Len(Fetched')), shown |-> TRUE]]_vars

\* an update() made with nothing selected has resumed with two keys, has run
\* the reconciliation (the flag is consumed) and has selected none
C16_Witness ==
    /\ Resumed("update") /\ Succeeded(last.req) /\ Len(Fetched) = 2
    /\ ~last.req.stale /\ ~app.loadedByUpdate
    /\ app.lastShownKeyIndex = -1
    /\ ActiveKeys(app) = {}
    /\ app.initialText = [text |-> LoadedMessage(2), shown |-> TRUE]

\* C17: once every retrieveStorage call in flight has resumed, the last of
\* them successfully, the storage map, keyList and the rendered key list are
\* those of the snapshot fetched by the call that resumed last, whether or
\* not a call made after it had resumed before it.
C17_LastCompletionWins ==
    (last.op = "Complete" /\ Succeeded(last.req) /\ pending = <<>>) =>
        /\ app.storage = [k \in Range(Fetched) |-> EntryOf(RawOf(last.req.snap.val, k))]
        /\ app.keyList = Fetched
        /\ [i \in 1..Len(app.keyListEl) |->
                [dataKey |-> app.keyListEl[i].dataKey, icon |-> app.keyListEl[i].icon]]
             = [i \in 1..Len(Fetched) |->
                [dataKey |-> EscapeHtml(Fetched[i]),
                 icon |-> ICON_TYPE[EntryOf(RawOf(last.req.snap.val, Fetched[i])).type]]]

\* the call made first has resumed last, after the call of a storage-type
\* change: its localStorage snapshot is installed under the name
\* sessionStorage
C17_Witness ==
    /\ last.op = "Complete" /\ Succeeded(last.req) /\ pending = <<>>
    /\ last.req.stale
    /\ last.req.name = "localStorage" /\ app.currentStorageName = "sessionStorage"
    /\ Fetched # <<>>
    /\ app.keyList = Fetched

\* the storage map, the rendered key list, the value view and the metadata
\* strip of u are empty
Emptied(u) ==
    /\ u.storage = <<>>
    /\ u.keyListEl = <<>>
    /\ u.valueView = EmptyView
    /\ u.valueInfo = EmptyInfo

\* C18: clear(shouldSaveLastShownKey), called in any state the panel reaches,
\* empties the storage map, the rendered key list, the value view and the
\* metadata strip; it leaves lastShownKey and lastShownKeyIndex as they are
\* when the flag is true and resets them to "" and -1 when it is false; it
\* leaves currentStorageName and loadedByUpdate as they are. So a click on
\* reload (flag true) empties the view and keeps the selection, and a
\* storage-type change (flag omitted) empties the view and resets it.
C18_ClearFrameAndEffect ==
    [][/\ \A flag \in BOOLEAN :
              LET c == clear(app, flag)
              IN /\ Emptied(c)
                 /\ c.lastShownKey = IF flag THEN app.lastShownKey ELSE <<>>
                 /\ c.lastShownKeyIndex = IF flag THEN app.lastShownKeyIndex ELSE -1
                 /\ c.currentStorageName = app.currentStorageName
                 /\ c.loadedByUpdate = app.loadedByUpdate
       /\ ReloadClick
              => /\ Emptied(app')
                 /\ app'.lastShownKey = app.lastShownKey
                 /\ app'.lastShownKeyIndex = app.lastShownKeyIndex
                 /\ app'.currentStorageName = app.currentStorageName
       /\ (\E value \in StorageNames : SelectStorageChange(value))
              => /\ Emptied(app')
                 /\ app'.lastShownKey = <<>>
                 /\ app'.lastShownKeyIndex = -1
                 /\ app'.loadedByUpdate = app.loadedByUpdate]_vars

\* a click on reload has emptied the view of a panel that showed the second
\* key of its list, and the selection is kept for the call in flight
C18_Witness ==
    /\ pending # <<>> /\ pending[Len(pending)].by = "reload"
    /\ Emptied(app)
    /\ app.lastShownKey # <<>> /\ app.lastShownKeyIndex = 1
    /\ app.keyList # <<>>
    /\ app.loadedByUpdate

\* C19: a click on reload empties the key list and the value view and keeps
\* lastShownKey and lastShownKeyIndex; when its retrieveStorage call fails,
\* they are still empty and still kept, the "Error loading <storage>" text is
\* visible and a further action can be taken; and when the reload made next
\* succeeds with the key still in the snapshot, that key is shown again, its
\* link is the active one and the error text is no longer visible.
C19_FailedReloadKeepsSelection ==
    [][/\ ReloadClick
              => /\ app'.keyListEl = <<>> /\ app'.valueView = EmptyView
                 /\ app'.lastShownKey = app.lastShownKey
                 /\ app'.lastShownKeyIndex = app.lastShownKeyIndex
       /\ (Resumed("reload")' /\ Rejected(last'.req) /\ Undisturbed)
              => /\ app'.keyListEl = <<>> /\ app'.valueView = EmptyView
                 /\ ErrorShown(app')
                 /\ app'.lastShownKey = app.lastShownKey
                 /\ app'.lastShownKeyIndex = app.lastShownKeyIndex
                 /\ CanIssue'
       /\ (Resumed("reload")' /\ Succeeded(last'.req) /\ idem.phase = "retry"
             /\ app.lastShownKey # <<>> /\ app.lastShownKey \in Range(Fetched'))
              => /\ app'.lastShownKey = app.lastShownKey
                 /\ Displays(app', app.lastShownKey)
                 /\ ActiveKeys(app') = {app.lastShownKey}
                 /\ ~app'.initialText.shown]_vars

\* C20: guessType gives the tag of the first of these that its argument is:
\* null, an array, any other object, a boolean, a number, a string; and
\* "other" for anything else. So null and arrays are never tagged "object",
\* and the tag is always one of the seven that ICON_TYPE has an icon for.
C20_GuessTypePriority ==
    probe.done =>
        /\ probe.type =
               CASE probe.val.t = "null" -> "null"
                 [] probe.val.t = "array" -> "array"
                 [] probe.val.t = "object" -> "object"
                 [] probe.val.t = "boolean" -> "boolean"
                 [] probe.val.t = "number" -> "number"
                 [] probe.val.t = "string" -> "string"
                 [] OTHER -> "other"
        /\ probe.val.t \in {"null", "array"} => probe.type # "object"
        /\ probe.type \in DOMAIN ICON_TYPE
        /\ Cardinality(DOMAIN ICON_TYPE) = 7

\* guessType has tagged an array that holds an empty array, which typeof
\* calls an object
C20_Witness ==
    /\ probe.done
    /\ probe.val.t = "array" /\ Len(probe.val.v) = 1 /\ probe.val.v[1].t = "array"
    /\ TypeOf(probe.val) = "object"
    /\ probe.type = "array"


\* a step of the panel.onShown listener; the parts of the view that every
\* step leaves comparable are looked at first
PanelShownStep ==
    /\ last'.op = "other"
    /\ app'.valueInfo = app.valueInfo
    /\ PanelShown

\* C21: the first time the panel is shown App.update() is not called (no call
\* is made, the instance is untouched) and the search listener is added;
\* every later time App.update() is called (one more retrieveStorage call in
\* flight, made by update) and no listener is added. So the search listener
\* is added once: there is none before the first show and one ever after.
C21_PanelLifecycle ==
    [][/\ (PanelShownStep /\ ~appShownFirst)
              => /\ appShownFirst'
                 /\ searchListeners' = searchListeners + 1
                 /\ pending' = pending /\ app' = app
       /\ (PanelShownStep /\ appShownFirst)
              => /\ appShownFirst'
                 /\ searchListeners' = searchListeners
                 /\ pending' = Append(pending, NewRequest(app.currentStorageName, "update"))
                 /\ app' = [app EXCEPT !.loadedByUpdate = TRUE]
       /\ searchListeners = (IF appShownFirst THEN 1 ELSE 0)
       /\ searchListeners' = (IF appShownFirst' THEN 1 ELSE 0)]_vars

\* the panel has been shown a second time while the call of init() was
\* still in flight
C21_Witness ==
    /\ appShownFirst /\ searchListeners = 1
    /\ Len(pending) = 2
    /\ pending[1].by = "update" /\ pending[2].by = "update"
    /\ app.loadedByUpdate


\* C22: after any sequence of search events the highlights in the value view
\* are those of the last event alone: when its action is "performSearch" and
\* its keyword is not empty, every highlight covers an occurrence of that
\* keyword and every occurrence of it meets a highlight; for any other
\* action, or an empty keyword, there is no highlight.
C22_HighlightsOfLastEvent ==
    probe.event # NoSearch =>
        IF probe.event.action = "performSearch" /\ probe.event.keyword # <<>>
        THEN LET kw == probe.event.keyword
                 occurrences == {p \in 1..Len(probe.text) :
                                    /\ p + Len(kw) - 1 <= Len(probe.text)
                                    /\ SubSeq(probe.text, p, p + Len(kw) - 1) = kw}
             IN /\ \A m \in probe.marks : m.len = Len(kw) /\ m.at \in occurrences
                /\ \A p \in occurrences :
                       \E m \in probe.marks : m.at < p + Len(kw) /\ p < m.at + m.len
        ELSE probe.marks = {}

\* a search for "b" has followed a search for "a" in a text that holds both:
\* the highlights of "a" are gone and "b" is highlighted
C22_Witness ==
    /\ probe.event = [action |-> "performSearch", keyword |-> <<"b">>]
    /\ probe.text = <<"a", "b", "a">>
    /\ probe.before = {[at |-> 1, len |-> 1], [at |-> 3, len |-> 1]}
    /\ probe.marks = {[at |-> 2, len |-> 1]}


\* C23: when a retrieveStorage call has resumed successfully and no other is
\* in flight, the snapshot it installed (the key list and the entries on
\* display) was fetched from the storage that currentStorageName names, the
\* one a remove or a clear would then change.
C23_DisplayedBelongsToNamed ==
    (last.op = "Complete" /\ Succeeded(last.req) /\ pending = <<>>) =>
        last.req.name = app.currentStorageName


\* C24: when no retrieveStorage call is in flight and none has failed so far,
\* a lastShownKey that is not empty is a key of the storage map. (The
\* snapshots that hold the empty-string key, which _tryToSelectNextKey cannot
\* select, are set aside here.)
C24_SelectionPointsIntoSnapshot ==
    (pending = <<>> /\ ~last.failed /\ app.lastShownKey # <<>>
        /\ <<>> \notin DOMAIN app.storage)
    => app.lastShownKey \in DOMAIN app.storage


RenderedKeys(u) == {DataKey(u.keyListEl[i]) : i \in 1..Len(u.keyListEl)}

\* C25: in every state between two handlers the keys of the rendered key
\* list are the keys of the storage map: both are the fetched keys when a
\* retrieveStorage call has just resumed successfully, and a click on any
\* rendered link finds the entry of its key and displays it (the key becomes
\* lastShownKey, its value and metadata are shown).
C25_ListAndMapAgree ==
    /\ RenderedKeys(app) = DOMAIN app.storage
    /\ (last.op = "Complete" /\ Succeeded(last.req))
            => RenderedKeys(app) = Range(Fetched)
    /\ \A i \in 1..Len(app.keyListEl) :
           LET key == DataKey(app.keyListEl[i])
               shown == showValueForKey(app, key)
           IN /\ key \in DOMAIN app.storage
              /\ shown.lastShownKey = key
              /\ Displays(shown, key)

\* in a list of two keys the link of the key that is one double quote,
\* rendered escaped, has been clicked and its array is displayed
C25_Witness ==
    /\ last.op = "other" /\ pending = <<>>
    /\ Len(app.keyListEl) = 2
    /\ app.keyListEl[2].dataKey = <<"&", "q", "u", "o", "t", ";">>
    /\ app.keyListEl[2].active
    /\ app.lastShownKey = <<"\"">>
    /\ app.lastShownKeyIndex = 1
    /\ app.valueView.kind = "json"
    /\ app.valueInfo = [shown |-> TRUE, type |-> "array", len |-> 3]


\* C26: when the link of a key k is the active one and k's value is on
\* display (the user has clicked k), with nothing in flight, lastShownKey is
\* k and a click on remove takes effect: the listener issues the removal of
\* k. This for every key of the snapshot, the empty string included.
C26_EveryKeySelectable ==
    \A i \in 1..Len(app.keyListEl) :
        (app.keyListEl[i].active /\ app.valueInfo.shown /\ Quiescent /\ budget = 0)
        => /\ app.lastShownKey = DataKey(app.keyListEl[i])
           /\ ENABLED RemoveClick


\* C27: when a retrieveStorage call for the storage S has resumed
\* successfully, the count in the label of S in the selector is the number of
\* links in the rendered key list.
C27_CountsAgreeWithList ==
    (last.op = "Complete" /\ Succeeded(last.req)) =>
        (IF last.req.name = "localStorage" THEN app.labels.ls ELSE app.labels.ss)
            = Len(app.keyListEl)


\* C28: when a retrieveStorage call resumes with both of its evaluations
\* successful, the "Error loading <storage>" text is not visible afterwards,
\* whatever the keys of the snapshot are.
C28_ErrorOnlyForFailures ==
    (last.op = "Complete" /\ Succeeded(last.req)) =>
        ~(app.initialText.shown /\ app.initialText.text.kind = "error")


\* C29: the entry that _parseAndRenderStorage builds for a raw string has the
\* type "object", "array" or "string", whatever the string is: the tags
\* "number", "boolean", "null" and "other" do not occur.
C29_ThreeTypeTags ==
    probe.done =>
        /\ probe.entry.type \in {"object", "array", "string"}
        /\ probe.entry.type \notin {"number", "boolean", "null", "other"}
        /\ probe.entry.type = probe.entry.value.t

\* the raw string null, which JSON.parse would turn into null, is stored as
\* a string
C29_Witness ==
    /\ probe.done
    /\ probe.raw = LiteralNull
    /\ JSONParse(probe.raw).ok
    /\ probe.entry.type = "string"
    /\ probe.entry.value.v = probe.raw

====
